---- MODULE Spec2Model ----
\* Model of project-analyzer.js: findImportantFiles (recursive scan), the digest
\* loop of analyzeProject, the exec callback and the un-awaited report write.
\* A JS string (file names, paths, contents read, the digest buffer, stdout) is a
\* sequence of UTF-16 code units and a file on disk a sequence of bytes, both as
\* numbers.
EXTENDS Integers, Sequences, FiniteSets, TLC

VARIABLES
    disk,            \* the working directory's tree (input)
    projectPath,     \* argument of analyzeProject / findImportantFiles
    prior,           \* both artifacts as a previous run left them (input)
    pc,              \* position of the run
    stack,           \* active scan() frames, innermost last
    files,           \* findImportantFiles: const files = []
    importantFiles,  \* analyzeProject: result of the awaited findImportantFiles
    idx,             \* position of the for-of loop in importantFiles.slice(0, 10)
    projectContext,  \* analyzeProject: let projectContext
    digestFile,      \* _project_analysis.txt
    reportFile,      \* _qwen_analysis_report.txt
    digestWrite,     \* progress of the awaited write of the digest
    child,           \* the external process: its state and its standard output
    callback,        \* position of the main thread in the exec callback
    reportWrite,     \* progress of the un-awaited write of the report
    log,             \* console.log / console.error calls, in order
    readFailed,      \* files whose fs.readFile rejected
    fault,           \* the I/O fault that hit the run, if any
    nExec,           \* number of exec() calls
    nReads,          \* number of fs.readFile calls
    visited,         \* paths fs.stat was called on
    revisited,       \* whether fs.stat was called twice on one path
    trace            \* the positions the run went through, in order

vars == <<disk, projectPath, prior, pc, stack, files, importantFiles, idx,
          projectContext, digestFile, reportFile, digestWrite, child, callback,
          reportWrite, log, readFailed, fault,
          nExec, nReads, visited, revisited, trace>>

\* ---------------------------------------------------------------- bounds
MaxNest == 2           \* nesting of the directory templates below the leaves

\* ------------------------------------------------------------- constants
FileLimit == 10        \* importantFiles.slice(0, 10)
LineLimit == 50        \* content.split('\n').slice(0, 50)

\* the printable ASCII characters in code order, from the blank (32) on (the
\* backtick, 96, by name); a string literal of the source is written as the tuple
\* of its characters
AsciiChars ==
    <<" ", "!", "\"", "#", "$", "%", "&", "'", "(", ")", "*", "+", ",", "-", ".", "/",
      "0", "1", "2", "3", "4", "5", "6", "7", "8", "9", ":", ";", "<", "=", ">", "?",
      "@", "A", "B", "C", "D", "E", "F", "G", "H", "I", "J", "K", "L", "M", "N", "O",
      "P", "Q", "R", "S", "T", "U", "V", "W", "X", "Y", "Z", "[", "\\", "]", "^", "_",
      "backtick", "a", "b", "c", "d", "e", "f", "g", "h", "i", "j", "k", "l", "m", "n",
      "o", "p", "q", "r", "s", "t", "u", "v", "w", "x", "y", "z", "{", "|", "}", "~">>
CodeOf(c) == 31 + CHOOSE k \in 1..Len(AsciiChars) : AsciiChars[k] = c
Str(chars) == [i \in 1..Len(chars) |-> CodeOf(chars[i])]

NL == 10                 \* '\n'
SEP == 47                \* '/'
BT == 96                 \* the backtick
\* the heading prefix of a section: two hashes, a blank, the four Cyrillic
\* letters of the source (U+0424 U+0430 U+0439 U+043B), a colon, a blank
HEADING == <<35, 35, 32, 1060, 1072, 1081, 1083, 58, 32>>
FENCE == <<BT, BT, BT>>  \* the code fence
Dot == Str(<<".">>)

Min(a, b) == IF a < b THEN a ELSE b

\* ------------------------------------------------------------ JS strings
\* String.prototype.endsWith
EndsWith(s, suffix) ==
    /\ Len(s) >= Len(suffix)
    /\ SubSeq(s, Len(s) - Len(suffix) + 1, Len(s)) = suffix

\* index of the first occurrence of character c in s, 0 when there is none
IndexOf(s, c) ==
    IF \E i \in 1..Len(s) : s[i] = c
    THEN CHOOSE i \in 1..Len(s) : s[i] = c /\ \A j \in 1..(i - 1) : s[j] # c
    ELSE 0

\* the positions of the separators of v, in increasing order
SepPositions(v, sep) == SelectSeq([i \in 1..Len(v) |-> i], LAMBDA i : v[i] = sep)

\* String.prototype.split(sep) for a one-character separator: the pieces between
\* consecutive separators, one more than there are separators. Split evaluates
\* its argument once (v ranges over the one-element set {s}).
SplitValue(v, pos) ==
    [k \in 1..(Len(pos) + 1) |->
        SubSeq(v, (IF k = 1 THEN 0 ELSE pos[k - 1]) + 1,
                  (IF k = Len(pos) + 1 THEN Len(v) + 1 ELSE pos[k]) - 1)]
Split(s, sep) ==
    CHOOSE r \in {SplitValue(v, pos) :
                     <<v, pos>> \in {<<w, SepPositions(w, sep)>> : w \in {s}}} : TRUE

\* Array.prototype.join(sep), by halves; the argument is evaluated once in the
\* same way
RECURSIVE Join(_, _)
JoinValue(v, sep) ==
    IF Len(v) = 0 THEN <<>>
    ELSE IF Len(v) = 1 THEN v[1]
    ELSE LET h == Len(v) \div 2
         IN  Join(SubSeq(v, 1, h), sep) \o <<sep>> \o Join(SubSeq(v, h + 1, Len(v)), sep)
Join(parts, sep) == CHOOSE r \in {JoinValue(v, sep) : v \in {parts}} : TRUE

\* the UTF-8 bytes of a code point
Utf8OfCodePoint(cp) ==
    IF cp < 128 THEN <<cp>>
    ELSE IF cp < 2048 THEN <<192 + (cp \div 64), 128 + (cp % 64)>>
    ELSE IF cp < 65536
         THEN <<224 + (cp \div 4096), 128 + ((cp \div 64) % 64), 128 + (cp % 64)>>
    ELSE <<240 + (cp \div 262144), 128 + ((cp \div 4096) % 64),
           128 + ((cp \div 64) % 64), 128 + (cp % 64)>>

IsHighSurrogate(u) == 55296 <= u /\ u <= 56319
IsLowSurrogate(u) == 56320 <= u /\ u <= 57343

\* the bytes fs.writeFile puts out for the code unit at position i of a string:
\* a surrogate pair gives the four bytes of its code point at the high
\* surrogate and nothing at the low one, a lone surrogate gives U+FFFD
Utf8Char(v, i) ==
    IF IsHighSurrogate(v[i]) /\ i < Len(v) /\ IsLowSurrogate(v[i + 1])
    THEN Utf8OfCodePoint(65536 + (v[i] - 55296) * 1024 + (v[i + 1] - 56320))
    ELSE IF IsLowSurrogate(v[i]) /\ i > 1 /\ IsHighSurrogate(v[i - 1]) THEN <<>>
    ELSE IF IsHighSurrogate(v[i]) \/ IsLowSurrogate(v[i]) THEN Utf8OfCodePoint(65533)
    ELSE Utf8OfCodePoint(v[i])
\* the concatenation of a sequence of sequences of at most w numbers: w slots
\* per element, the unused ones (-1) left out
Slots(p, w) ==
    SelectSeq([k \in 1..(w * Len(p)) |->
                  LET i == (k + w - 1) \div w
                      j == ((k - 1) % w) + 1
                  IN  IF j <= Len(p[i]) THEN p[i][j] ELSE -1],
              LAMBDA x : x # -1)
\* the bytes of each code unit of a string, computed once
Utf8Value(v) == [i \in 1..Len(v) |-> Utf8Char(v, i)] \o <<>>
\* fs.writeFile(name, string): the UTF-8 encoding of the string
Utf8(text) ==
    CHOOSE r \in {Slots(p, 4) : p \in {Utf8Value(v) : v \in {text}}} : TRUE

\* UTF-8 decoding as fs.readFile(file, 'utf-8') does it. Sequence length by lead
\* byte (0 for a byte that starts no sequence), and the range of the second byte
IsCont(x) == 128 <= x /\ x <= 191
Need(x) ==
    IF x < 128 THEN 1
    ELSE IF 194 <= x /\ x <= 223 THEN 2
    ELSE IF 224 <= x /\ x <= 239 THEN 3
    ELSE IF 240 <= x /\ x <= 244 THEN 4
    ELSE 0
SecondLow(x) == IF x = 224 THEN 160 ELSE IF x = 240 THEN 144 ELSE 128
SecondHigh(x) == IF x = 237 THEN 159 ELSE IF x = 244 THEN 143 ELSE 191
\* the number of bytes the sequence starting at j takes: all of a well-formed
\* sequence, or the longest prefix of one
Taken(b, j) ==
    LET n == Need(b[j])
        ok2 == j + 1 <= Len(b) /\ SecondLow(b[j]) <= b[j + 1] /\ b[j + 1] <= SecondHigh(b[j])
        ok3 == j + 2 <= Len(b) /\ IsCont(b[j + 2])
        ok4 == j + 3 <= Len(b) /\ IsCont(b[j + 3])
    IN  IF n < 2 \/ ~ok2 THEN 1
        ELSE IF n = 2 \/ ~ok3 THEN 2
        ELSE IF n = 3 \/ ~ok4 THEN 3
        ELSE 4
\* whether the byte at i belongs to a sequence that started before it
Consumed(b, i) ==
    /\ IsCont(b[i])
    /\ \E j \in {i - 3, i - 2, i - 1} :
         /\ j >= 1
         /\ ~IsCont(b[j])
         /\ \A m \in (j + 1)..(i - 1) : IsCont(b[m])
         /\ i < j + Taken(b, j)
\* the code units of the sequence starting at i: the character of a well-formed
\* sequence (a surrogate pair above U+FFFF), U+FFFD for anything else
UnitsAt(b, i) ==
    LET n == Need(b[i])
        cp == IF n = 2 THEN (b[i] - 192) * 64 + (b[i + 1] - 128)
              ELSE IF n = 3
                   THEN (b[i] - 224) * 4096 + (b[i + 1] - 128) * 64 + (b[i + 2] - 128)
              ELSE (b[i] - 240) * 262144 + (b[i + 1] - 128) * 4096
                   + (b[i + 2] - 128) * 64 + (b[i + 3] - 128)
    IN  IF Consumed(b, i) THEN <<>>
        ELSE IF n = 1 THEN <<b[i]>>
        ELSE IF n = 0 \/ Taken(b, i) < n THEN <<65533>>
        ELSE IF cp < 65536 THEN <<cp>>
        ELSE <<55296 + ((cp - 65536) \div 1024), 56320 + ((cp - 65536) % 1024)>>
\* the code units of each byte of a file, computed once
Utf8DecodeValue(b) == [i \in 1..Len(b) |-> UnitsAt(b, i)] \o <<>>
Utf8Decode(bytes) ==
    CHOOSE r \in {Slots(p, 2) : p \in {Utf8DecodeValue(v) : v \in {bytes}}} : TRUE

\* Array.prototype.slice(0, n)
SliceFirst(a, n) == SubSeq(a, 1, Min(n, Len(a)))

\* path.join(currentPath, item): '.' joined with a name is the name
PathJoin(currentPath, item) ==
    IF currentPath = Dot THEN item ELSE currentPath \o <<SEP>> \o item

\* ------------------------------------------------- findImportantFiles data
importantExtensions ==
    << Str(<<".", "j", "s">>), Str(<<".", "t", "s">>), Str(<<".", "j", "s", "x">>),
       Str(<<".", "t", "s", "x">>), Str(<<".", "p", "y">>), Str(<<".", "j", "a", "v", "a">>),
       Str(<<".", "c", "p", "p">>), Str(<<".", "g", "o">>) >>

ignoreDirs ==
    << Str(<<"n", "o", "d", "e", "_", "m", "o", "d", "u", "l", "e", "s">>),
       Str(<<".", "g", "i", "t">>), Str(<<"d", "i", "s", "t">>), Str(<<"b", "u", "i", "l", "d">>) >>

\* faulty variant: only the first name of the list is compared
IsIgnoredOnlyFirst(item) == item = ignoreDirs[1]
\* ignoreDirs.includes(item)
IsIgnored(item) == \E i \in 1..Len(ignoreDirs) : ignoreDirs[i] = item

\* faulty variant: includes(ext) in place of endsWith(ext)
IsImportantAnywhere(item) ==
    \E i \in 1..Len(importantExtensions) :
        \E k \in 0..Len(item) :
            EndsWith(SubSeq(item, 1, k), importantExtensions[i])
\* importantExtensions.some(ext => item.endsWith(ext))
IsImportant(item) ==
    \E i \in 1..Len(importantExtensions) : EndsWith(item, importantExtensions[i])

\* ------------------------------------------------------------ the inputs
\* A node of the tree: a file (given by its number of lines and whether the last
\* line is terminated, or by its bytes) or a directory (its entries in readdir
\* order, here the order of the names' bytes).
File(n, eol) == [kind |-> "file", lines |-> n, eol |-> eol]
Blob(data) == [kind |-> "file", data |-> data]
Dir(entries) == [kind |-> "dir", entries |-> entries]
Entry(name, node) == [name |-> name, node |-> node]
NoEnt == [kind |-> "none"]

\* the bytes of a file of n lines of one digit each ('0' is 48), the last digit of
\* the line number
Text(n, eol) ==
    LET body == [k \in 1..(IF n = 0 THEN 0 ELSE 2 * n - 1) |->
                    IF k % 2 = 1 THEN 48 + (((k + 1) \div 2) % 10) ELSE NL]
    IN  IF eol THEN Append(body, NL) ELSE body

\* the bytes of a file node
ContentOf(node) ==
    IF "data" \in DOMAIN node THEN node.data ELSE Text(node.lines, node.eol)

EmptyDir == Dir(<<>>)

\* one file per allow-listed extension; w.go is not UTF-8: a line in Latin-1
\* ("caf" and the byte E9), then the bytes FF and C3 and a line end; w.ts has
\* exactly 50 lines, the last one not terminated
Wide == Dir(<<
    Entry(Str(<<"w", ".", "c", "p", "p">>), File(3, FALSE)),
    Entry(Str(<<"w", ".", "g", "o">>),
          Blob(Str(<<"c", "a", "f">>) \o <<233, NL, 255, 195, NL>>)),
    Entry(Str(<<"w", ".", "j", "a", "v", "a">>), File(2, TRUE)),
    Entry(Str(<<"w", ".", "j", "s">>), File(1, FALSE)),
    Entry(Str(<<"w", ".", "j", "s", "x">>), File(0, FALSE)),
    Entry(Str(<<"w", ".", "p", "y">>), File(2, FALSE)),
    Entry(Str(<<"w", ".", "t", "s">>), File(LineLimit, FALSE)),
    Entry(Str(<<"w", ".", "t", "s", "x">>), File(0, TRUE)) >>)

\* names that look like allow-listed ones, a file named like an ignored
\* directory; the file .js holds two lines of characters of two, three and four
\* bytes (U+044F U+20AC, U+1F4DD)
Tricky == Dir(<<
    Entry(Str(<<".", "g", "i", "t">>),
          Dir(<<Entry(Str(<<"h", ".", "g", "o">>), File(1, FALSE))>>)),
    Entry(Str(<<".", "j", "s">>),
          Blob(<<209, 143, 226, 130, 172, NL, 240, 159, 147, 157>>)),
    Entry(Str(<<"a", ".", "P", "Y">>), File(1, FALSE)),
    Entry(Str(<<"a", ".", "j", "s", ".", "t", "x", "t">>), File(2, FALSE)),
    Entry(Str(<<"a", ".", "j", "s", "o", "n">>), File(1, TRUE)),
    Entry(Str(<<"d", "i", "s", "t">>), File(1, FALSE)),
    Entry(Str(<<"j", "s">>), File(1, FALSE)) >>)

\* the example of the specification (a long a.js, a short b.py, c.txt) with an
\* ignored build directory, a directory whose name ends like a source file, a
\* subdirectory src and a dependency cache
Mixed(sub) == Dir(<<
    Entry(Str(<<"a", ".", "j", "s">>), File(LineLimit + 1, FALSE)),
    Entry(Str(<<"a", "p", "p", ".", "j", "s">>),
          Dir(<<Entry(Str(<<"m", ".", "g", "o">>), File(LineLimit, TRUE))>>)),
    Entry(Str(<<"b", ".", "p", "y">>), File(2, TRUE)),
    Entry(Str(<<"b", "u", "i", "l", "d">>),
          Dir(<<Entry(Str(<<"x", ".", "j", "s">>), File(1, FALSE))>>)),
    Entry(Str(<<"c", ".", "t", "x", "t">>), File(1, FALSE)),
    Entry(Str(<<"n", "o", "d", "e", "_", "m", "o", "d", "u", "l", "e", "s">>),
          Dir(<<Entry(Str(<<"s", "r", "c">>),
                      Dir(<<Entry(Str(<<"y", ".", "p", "y">>), File(1, FALSE))>>))>>)),
    Entry(Str(<<"s", "r", "c">>), sub) >>)

LeafDirs == {EmptyDir, Tricky}

\* the leaves, and Mixed nested k times around a leaf
RECURSIVE Dirs(_)
Dirs(k) ==
    IF k = 0 THEN LeafDirs ELSE LeafDirs \cup {Mixed(s) : s \in Dirs(k - 1)}

\* the working directories of the runs: the nests, and the directory of one file
\* per extension, alone and as the subdirectory of Mixed (more than 10 files)
Trees == Dirs(MaxNest) \cup {Wide, Mixed(Wide)}

Absent == [exists |-> FALSE, data |-> <<>>]
Present(data) == [exists |-> TRUE, data |-> data]
PriorArtifacts == {Absent, Present(Str(<<"o", "l", "d">>))}

\* the standard output handed to the exec callback: nothing, " OK\n", and a line
\* with a character of two bytes (U+00E9)
Stdouts == {<<>>, Str(<<" ", "O", "K">>) \o <<NL>>, <<233, NL>>}

\* the number of bytes a failing write puts out before it fails (a file size
\* limit, a full device)
WriteLimits == {1, 2, 3, 100}

DigestName ==
    Str(<<"_", "p", "r", "o", "j", "e", "c", "t", "_", "a", "n", "a", "l", "y", "s",
      "i", "s", ".", "t", "x", "t">>)
ReportName ==
    Str(<<"_", "q", "w", "e", "n", "_", "a", "n", "a", "l", "y", "s", "i", "s", "_",
      "r", "e", "p", "o", "r", "t", ".", "t", "x", "t">>)

\* ------------------------------------------------------------ the disk
\* the entry called name of a directory node
Child(node, name) ==
    IF node.kind = "dir" /\ \E i \in 1..Len(node.entries) : node.entries[i].name = name
    THEN node.entries[CHOOSE i \in 1..Len(node.entries) : node.entries[i].name = name].node
    ELSE NoEnt

\* one step down per component; the arguments are evaluated once, as in Split
RECURSIVE Descend(_, _)
DescendValue(n, c) ==
    IF Len(c) = 0 THEN n ELSE Descend(Child(n, Head(c)), Tail(c))
Descend(node, comps) ==
    CHOOSE r \in {DescendValue(n, c) : n \in {node}, c \in {comps}} : TRUE

\* the working directory: the tree, and the two artifacts where they exist; both
\* are written with names relative to the working directory (lines 26, 40)
ArtifactEntries(d, r) ==
    (IF d.exists THEN <<Entry(DigestName, Blob(d.data))>> ELSE <<>>)
    \o (IF r.exists THEN <<Entry(ReportName, Blob(r.data))>> ELSE <<>>)
\* the entries s with the entries e put in after the first k of them (at the end
\* when there are fewer)
InsertAt(s, e, k) ==
    SubSeq(s, 1, Min(k, Len(s))) \o e \o SubSeq(s, Min(k, Len(s)) + 1, Len(s))
\* the digest listed after the first at entries of the tree, the report after
\* the first rt entries of the listing that gives
WithArtifacts(tree, d, r, at, rt) ==
    Dir(InsertAt(InsertAt(tree.entries, ArtifactEntries(d, Absent), at),
                 ArtifactEntries(Absent, r), rt))
Cwd == WithArtifacts(disk, digestFile, reportFile, 0, 0)

\* the node a path names, relative to the working directory
Resolve(tree, path) ==
    IF path = Dot THEN tree ELSE Descend(tree, Split(path, SEP))

\* fs.readdir: the names of a directory, in listing order
Readdir(node) == [i \in 1..Len(node.entries) |-> node.entries[i].name]

\* the listings fs.readdir can give for a path: the entries of the tree in their
\* order; in the working directory the existing artifacts are listed among
\* them, each at the place the file system gives it
Listings(path) ==
    IF path = Dot
    THEN {Readdir(WithArtifacts(disk, digestFile, reportFile, at, rt)) :
             at \in 0..Len(disk.entries), rt \in 0..(Len(disk.entries) + 1)}
    ELSE {Readdir(Resolve(Cwd, path))}

\* ------------------------------------------------------- analyzeProject data
\* let projectContext = "# <title>\n\n", the title in the Cyrillic letters of
\* the source
Header ==
    <<35, 32, 1040, 1085, 1072, 1083, 1080, 1079, 32,
      1087, 1088, 1086, 1077, 1082, 1090, 1072, NL, NL>>

\* faulty variant: slice(0, 11)
SelectedOneMore(list) == SliceFirst(list, FileLimit + 1)
\* importantFiles.slice(0, 10)
Selected(list) == SliceFirst(list, FileLimit)

\* faulty variant: slice(0, 51)
ExcerptOneMore(content) == Join(SliceFirst(Split(content, NL), LineLimit + 1), NL)
\* content.split('\n').slice(0, 50).join('\n')
Excerpt(content) == Join(SliceFirst(Split(content, NL), LineLimit), NL)

\* the template literal of a section: heading with the path, the lines in a fence
Section(file, lines) ==
    HEADING \o file \o <<NL>> \o FENCE \o <<NL>> \o lines \o <<NL>> \o FENCE \o <<NL, NL>>

\* faulty variant: the try/catch around the loop, a failed read ends the loop
BreakAfterReadError(i) == FileLimit + 1
\* the catch block sits inside the for loop: the loop goes on with the next file
NextAfterReadError(i) == i + 1

\* faulty variant: the error branch without its return statement
FallsThroughOnError == FALSE
\* the return statement of the exec callback's error branch
ReturnsOnError == TRUE

\* faulty variant: stdout.trimEnd() is written
RECURSIVE TrimEnd(_)
TrimEnd(s) ==
    IF Len(s) > 0 /\ s[Len(s)] \in {NL, 32} THEN TrimEnd(SubSeq(s, 1, Len(s) - 1)) ELSE s
ReportDataTrimmed(out) == TrimEnd(out)
\* the data fs.writeFile('_qwen_analysis_report.txt', stdout) writes: stdout itself
ReportData(out) == out

\* faulty variant: findImportantFiles catches the rejection and returns files
ScanErrorSwallowed == FALSE
\* a rejected fs.readdir / fs.stat is not caught in scan or findImportantFiles
ScanErrorPropagates == TRUE

\* faulty variant: the recursive scan is not awaited, the first return ends the scan
AnyScanReturned(stk) == TRUE
\* await scan(dir): findImportantFiles returns when the outermost scan returns
ScanFinished(stk) == Len(stk) = 1

\* faulty variant: the loop does not move on after an ignored directory
StayOnIgnored(i) == i
\* the for-of loop of scan moves to the next item after an ignored directory
AfterIgnored(i) == i + 1

\* log entries: <<level, message, argument>>
Logged(level, msg, arg) == <<level, msg, arg>>

\* what an fs.writeFile of data that fails after its open leaves: the file as
\* the open truncated it, or holding the bytes that went out before the write
\* failed, a proper prefix of data
FailedAfterOpenValue(data) ==
    {Present(<<>>)}
    \cup {Present(SubSeq(data, 1, k)) :
             k \in {q \in WriteLimits \cup {Len(data) - 1} : 0 < q /\ q < Len(data)}}
FailedAfterOpen(data) == UNION {FailedAfterOpenValue(v) : v \in {data}}

\* -------------------------------------------------------------- the run
Frame(path) == [path |-> path, stage |-> "readdir", items |-> <<>>, i |-> 1]
Top == stack[Len(stack)]
SetTop(f) == [stack EXCEPT ![Len(stack)] = f]
Pop == SubSeq(stack, 1, Len(stack) - 1)

Init ==
    /\ disk \in Trees
    /\ projectPath = Dot
    /\ prior \in PriorArtifacts
    /\ pc = "Idle"
    /\ stack = <<>>
    /\ files = <<>>
    /\ importantFiles = <<>>
    /\ idx = 1
    /\ projectContext = <<>>
    /\ digestFile = prior
    /\ reportFile = prior
    /\ digestWrite = "none"
    /\ child = [state |-> "none", out |-> <<>>]
    /\ callback = "none"
    /\ reportWrite = "none"
    /\ log = <<>>
    /\ readFailed = {}
    /\ fault = "none"
    /\ nExec = 0
    /\ nReads = 0
    /\ visited = {}
    /\ revisited = FALSE
    /\ trace = <<"Idle">>

\* analyzeProject('.'): the first console.log and the call of findImportantFiles
Start ==
    /\ pc = "Idle"
    /\ log' = Append(log, Logged("log", "analyzing", <<>>))
    /\ stack' = <<Frame(projectPath)>>
    /\ pc' = "Collecting"
    /\ trace' = Append(trace, "Collecting")
    /\ UNCHANGED <<disk, projectPath, prior, files, importantFiles, idx,
                   projectContext, digestFile, reportFile, child, callback, reportWrite, digestWrite,
                   readFailed, fault, nExec, nReads, visited, revisited>>

\* findImportantFiles returns files to analyzeProject, which starts the digest
ReturnFiles ==
    /\ importantFiles' = files
    /\ projectContext' = Header
    /\ idx' = 1
    /\ pc' = "Digesting"
    /\ trace' = Append(trace, "Digesting")

\* a rejection reaches analyzeProject('.').catch(console.error)
Abort(kind) ==
    /\ fault' = kind
    /\ log' = Append(log, Logged("error", "uncaught", <<kind>>))
    /\ pc' = "Done"
    /\ trace' = Append(trace, "Done")

\* a rejected fs.readdir or fs.stat inside scan
ScanError ==
    /\ UNCHANGED files
    /\ IF ScanErrorPropagates
       THEN /\ Abort("traversal")
            /\ stack' = <<>>
            /\ UNCHANGED <<importantFiles, projectContext, idx>>
       ELSE /\ ReturnFiles
            /\ fault' = "traversal"
            /\ stack' = <<>>
            /\ UNCHANGED log

\* const items = await fs.readdir(currentPath)
ScanReaddir ==
    /\ pc = "Collecting"
    /\ Len(stack) > 0
    /\ Top.stage = "readdir"
    /\ LET node == Resolve(Cwd, Top.path)
       IN  \E ok \in BOOLEAN :
             IF ok /\ node.kind = "dir"
             THEN /\ \E items \in Listings(Top.path) :
                       stack' = SetTop([Top EXCEPT !.stage = "loop", !.items = items])
                  /\ UNCHANGED <<files, importantFiles, projectContext, idx, pc, trace,
                                 fault, log>>
             ELSE ScanError
    /\ UNCHANGED <<disk, projectPath, prior, digestFile, reportFile, child,
                   callback, reportWrite, digestWrite, readFailed, nExec, nReads, visited, revisited>>

\* one iteration of `for (const item of items)`: path.join, fs.stat, the branches
ScanItem ==
    /\ pc = "Collecting"
    /\ Len(stack) > 0
    /\ Top.stage = "loop"
    /\ Top.i <= Len(Top.items)
    /\ LET item == Top.items[Top.i]
           fullPath == PathJoin(Top.path, item)
           node == Resolve(Cwd, fullPath)
       IN  /\ visited' = visited \cup {fullPath}
           /\ revisited' = (revisited \/ fullPath \in visited)
           /\ \E ok \in BOOLEAN :
                IF ok /\ node.kind # "none"
                THEN /\ IF node.kind = "dir"
                        THEN /\ UNCHANGED files
                             /\ IF ~IsIgnored(item)
                                THEN stack' = Append(SetTop([Top EXCEPT !.i = Top.i + 1]),
                                                     Frame(fullPath))
                                ELSE stack' = SetTop([Top EXCEPT !.i = AfterIgnored(Top.i)])
                        ELSE /\ stack' = SetTop([Top EXCEPT !.i = Top.i + 1])
                             /\ IF IsImportant(item)
                                THEN files' = Append(files, fullPath)
                                ELSE UNCHANGED files
                     /\ UNCHANGED <<importantFiles, projectContext, idx, pc, trace,
                                    fault, log>>
                ELSE ScanError
    /\ UNCHANGED <<disk, projectPath, prior, digestFile, reportFile, child,
                   callback, reportWrite, digestWrite, readFailed, nExec, nReads>>

\* the end of scan's loop: the innermost scan returns to its caller
ScanReturn ==
    /\ pc = "Collecting"
    /\ Len(stack) > 0
    /\ Top.stage = "loop"
    /\ Top.i > Len(Top.items)
    /\ stack' = Pop
    /\ IF ScanFinished(stack)
       THEN ReturnFiles
       ELSE UNCHANGED <<importantFiles, projectContext, idx, pc, trace>>
    /\ UNCHANGED <<disk, projectPath, prior, files, digestFile, reportFile,
                   child, callback, reportWrite, digestWrite, log, readFailed, fault, nExec, nReads,
                   visited, revisited>>

\* one iteration of the digest loop: fs.readFile in try/catch
ReadFile ==
    /\ pc = "Digesting"
    /\ idx <= Len(Selected(importantFiles))
    /\ LET file == Selected(importantFiles)[idx]
           node == Resolve(Cwd, file)
       IN  \E ok \in BOOLEAN :
             IF ok /\ node.kind = "file"
             THEN /\ projectContext' =
                        projectContext \o Section(file, Excerpt(Utf8Decode(ContentOf(node))))
                  /\ idx' = idx + 1
                  /\ UNCHANGED <<log, readFailed>>
             ELSE /\ log' = Append(log, Logged("log", "unreadable", file))
                  /\ readFailed' = readFailed \cup {file}
                  /\ idx' = NextAfterReadError(idx)
                  /\ UNCHANGED projectContext
    /\ nReads' = nReads + 1
    /\ UNCHANGED <<disk, projectPath, prior, pc, stack, files, importantFiles,
                   digestFile, reportFile, child, callback, reportWrite, digestWrite, fault, nExec,
                   visited, revisited, trace>>

\* await fs.writeFile('_project_analysis.txt', projectContext), the loop being
\* over: on a pool thread the open creates the file or truncates it, or fails
DigestOpen ==
    /\ pc = "Digesting"
    /\ idx > Len(Selected(importantFiles))
    /\ digestWrite = "none"
    /\ \/ /\ digestFile' = Present(<<>>)
          /\ digestWrite' = "opened"
       \/ /\ digestWrite' = "failed"
          /\ UNCHANGED digestFile
    /\ UNCHANGED <<disk, projectPath, prior, pc, stack, files, importantFiles, idx,
                   projectContext, reportFile, child, callback, reportWrite, log,
                   readFailed, fault, nExec, nReads, visited, revisited, trace>>

\* the same write, after its open: the encoded buffer is written and the await
\* resumes, or a write fails with part of the data, or none of it, on disk
DigestData ==
    /\ pc = "Digesting"
    /\ digestWrite = "opened"
    /\ \E data \in {Utf8(projectContext)} :
         \/ /\ digestFile' = Present(data)
            /\ digestWrite' = "done"
         \/ /\ digestFile' \in FailedAfterOpen(data)
            /\ digestWrite' = "failed"
    /\ UNCHANGED <<disk, projectPath, prior, pc, stack, files, importantFiles, idx,
                   projectContext, reportFile, child, callback, reportWrite, log,
                   readFailed, fault, nExec, nReads, visited, revisited, trace>>

\* the promise of the failed write rejects: the await of line 26 throws and the
\* rejection of analyzeProject reaches .catch(console.error) on line 74
DigestRejected ==
    /\ pc = "Digesting"
    /\ digestWrite = "failed"
    /\ Abort("digestWrite")
    /\ UNCHANGED <<disk, projectPath, prior, stack, files, importantFiles, idx,
                   projectContext, digestFile, reportFile, digestWrite, child,
                   callback, reportWrite, readFailed, nExec, nReads, visited,
                   revisited>>

\* lines 29-30, after the await: the console.log and the call of exec
Invoke ==
    /\ pc = "Digesting"
    /\ digestWrite = "done"
    /\ log' = Append(log, Logged("log", "sending", <<>>))
    /\ child' = [state |-> "running", out |-> <<>>]
    /\ nExec' = nExec + 1
    /\ pc' = "Invoking"
    /\ trace' = Append(trace, "Invoking")
    /\ UNCHANGED <<disk, projectPath, prior, stack, files, importantFiles, idx,
                   projectContext, digestFile, reportFile, digestWrite, callback,
                   reportWrite, readFailed, fault, nReads, visited, revisited>>

\* the exec callback (error, stdout, stderr) => {...} up to the call of
\* fs.writeFile on line 40, which hands the open of the report to the thread pool
ExecCallback ==
    /\ pc = "Invoking"
    /\ \E error \in BOOLEAN, out \in Stdouts :
         LET seen == IF error THEN Append(log, Logged("error", "exec", <<>>)) ELSE log
         IN  /\ child' = [state |-> IF error THEN "error" ELSE "ok", out |-> out]
             /\ IF error /\ ReturnsOnError
                THEN /\ log' = seen
                     /\ fault' = "exec"
                     /\ callback' = "returned"
                     /\ UNCHANGED reportWrite
                     /\ pc' = "Failed"
                     /\ trace' = Append(trace, "Failed")
                ELSE /\ log' = seen \o <<Logged("log", "results", <<>>),
                                         Logged("log", "stdout", out)>>
                     /\ fault' = IF error THEN "exec" ELSE fault
                     /\ callback' = "line41"
                     /\ reportWrite' = "pending"
                     /\ pc' = "Reporting"
                     /\ trace' = Append(trace, "Reporting")
    /\ UNCHANGED <<disk, projectPath, prior, stack, files, importantFiles,
                   idx, projectContext, digestFile, reportFile, digestWrite,
                   readFailed, nExec, nReads, visited, revisited>>

\* line 41: the completion message, and the return of the callback
LogSaved ==
    /\ pc = "Reporting"
    /\ callback = "line41"
    /\ log' = Append(log, Logged("log", "saved", <<>>))
    /\ callback' = "returned"
    /\ UNCHANGED <<disk, projectPath, prior, pc, stack, files, importantFiles,
                   idx, projectContext, digestFile, reportFile, child, reportWrite, digestWrite,
                   readFailed, fault, nExec, nReads, visited, revisited, trace>>

\* the open (create, truncate) of the write of line 40, on a thread of the pool:
\* it runs while the main thread is at line 41 or later
ReportOpen ==
    /\ pc = "Reporting"
    /\ reportWrite = "pending"
    /\ \/ /\ reportFile' = Present(<<>>)
          /\ reportWrite' = "opened"
       \/ /\ reportWrite' = "openFailed"
          /\ UNCHANGED reportFile
    /\ UNCHANGED <<disk, projectPath, prior, pc, stack, files, importantFiles,
                   idx, projectContext, digestFile, digestWrite, child, callback, log,
                   readFailed, fault, nExec, nReads, visited, revisited, trace>>

\* the data of the un-awaited fs.writeFile('_qwen_analysis_report.txt', stdout):
\* it is written after the callback returned, when the main thread has taken the
\* result of the open; the write completes and the run is over, or a write
\* fails with part of the data, or none of it, on disk
ReportWritten ==
    /\ pc = "Reporting"
    /\ callback = "returned"
    /\ reportWrite = "opened"
    /\ \E data \in {Utf8(ReportData(child.out))} :
         \/ /\ reportFile' = Present(data)
            /\ reportWrite' = "settled"
            /\ pc' = "Done"
            /\ trace' = Append(trace, "Done")
         \/ /\ reportFile' \in FailedAfterOpen(data)
            /\ reportWrite' = "failed"
            /\ UNCHANGED <<pc, trace>>
    /\ UNCHANGED <<disk, projectPath, prior, stack, files, importantFiles, idx,
                   projectContext, digestFile, digestWrite, child, callback, log,
                   readFailed, fault, nExec, nReads, visited, revisited>>

\* the promise of the failed report write rejects; the program has no handler
\* for it and logs nothing
ReportRejected ==
    /\ pc = "Reporting"
    /\ callback = "returned"
    /\ reportWrite \in {"openFailed", "failed"}
    /\ fault' = "reportWrite"
    /\ reportWrite' = "settled"
    /\ pc' = "Done"
    /\ trace' = Append(trace, "Done")
    /\ UNCHANGED <<disk, projectPath, prior, stack, files, importantFiles, idx,
                   projectContext, digestFile, reportFile, digestWrite, child,
                   callback, log, readFailed, nExec, nReads, visited, revisited>>

\* nothing is pending after a failed invocation: the process ends
Exit ==
    /\ pc = "Failed"
    /\ pc' = "Done"
    /\ trace' = Append(trace, "Done")
    /\ UNCHANGED <<disk, projectPath, prior, stack, files, importantFiles, idx,
                   projectContext, digestFile, reportFile, child, callback, reportWrite, digestWrite,
                   log, readFailed, fault, nExec, nReads, visited, revisited>>

Next ==
    \/ Start
    \/ ScanReaddir
    \/ ScanItem
    \/ ScanReturn
    \/ ReadFile
    \/ DigestOpen
    \/ DigestData
    \/ DigestRejected
    \/ Invoke
    \/ ExecCallback
    \/ LogSaved
    \/ ReportOpen
    \/ ReportWritten
    \/ ReportRejected
    \/ Exit

Spec == Init /\ [][Next]_vars

\* every pending I/O operation and the exec callback eventually complete
FairSpec == Init /\ [][Next]_vars /\ WF_vars(Next)

\* ===================================================================
\* The properties. They are stated on the tree, the artifacts and the console,
\* with their own reading of the deny-set, the allow-list, lines and order.
\* ===================================================================
DenyNames ==
    { Str(<<"n", "o", "d", "e", "_", "m", "o", "d", "u", "l", "e", "s">>),
      Str(<<".", "g", "i", "t">>), Str(<<"d", "i", "s", "t">>), Str(<<"b", "u", "i", "l", "d">>) }

AllowedExts ==
    { Str(<<".", "j", "s">>), Str(<<".", "t", "s">>), Str(<<".", "j", "s", "x">>),
      Str(<<".", "t", "s", "x">>), Str(<<".", "p", "y">>), Str(<<".", "j", "a", "v", "a">>),
      Str(<<".", "c", "p", "p">>), Str(<<".", "g", "o">>) }

HasAllowedExt(path) == \E e \in AllowedExts : EndsWith(path, e)

\* the names of the directories on a path: every component but the last
DirNames(path) ==
    LET c == Split(path, SEP) IN {c[i] : i \in 1..(Len(c) - 1)}

LastName(path) == LET c == Split(path, SEP) IN c[Len(c)]

Range(seq) == {seq[i] : i \in 1..Len(seq)}

IsPrefix(a, b) == Len(a) <= Len(b) /\ SubSeq(b, 1, Len(a)) = a

\* the files a depth-first walk in listing order returns
RECURSIVE WalkFrom(_, _, _)
WalkValue(node, path, k) ==
    IF k > Len(node.entries) THEN <<>>
    ELSE LET e == node.entries[k]
             p == IF path = Dot THEN e.name ELSE path \o <<SEP>> \o e.name
             here == IF e.node.kind = "dir"
                     THEN IF e.name \in DenyNames THEN <<>> ELSE WalkFrom(e.node, p, 1)
                     ELSE IF HasAllowedExt(e.name) THEN <<p>> ELSE <<>>
         IN  here \o WalkFrom(node, path, k + 1)
WalkFrom(node, path, k) ==
    CHOOSE r \in {WalkValue(n, p, k) : n \in {node}, p \in {path}} : TRUE

\* the working directory as the run found it (the artifacts of an earlier run
\* are never collected, wherever they are listed)
InitialCwd ==
    Dir((IF prior.exists
         THEN <<Entry(DigestName, Blob(prior.data)), Entry(ReportName, Blob(prior.data))>>
         ELSE <<>>) \o disk.entries)

ExpectedList ==
    LET root == Resolve(InitialCwd, projectPath)
    IN  IF root.kind = "dir" THEN WalkFrom(root, projectPath, 1) ELSE <<>>

\* positions of the line ends of a text, and the text before its n-th line end
NLPos(t) == {i \in 1..Len(t) : t[i] = NL}
LineEnds(t) == SelectSeq([i \in 1..Len(t) |-> i], LAMBDA i : t[i] = NL)
FirstLinesOf(t, ends, n) == IF Len(ends) < n THEN t ELSE SubSeq(t, 1, ends[n] - 1)
FirstLines(t, n) ==
    CHOOSE r \in {FirstLinesOf(v, LineEnds(v), n) : v \in {t}} : TRUE

\* the bytes of the digest's title line, of a section heading and of a fence
TitleBytes ==
    <<35, 32, 208, 144, 208, 189, 208, 176, 208, 187, 208, 184,
      208, 183, 32, 208, 191, 209, 128, 208, 190, 208, 181,
      208, 186, 209, 130, 208, 176, 10, 10>>
HeadingBytes ==
    <<35, 35, 32, 208, 164, 208, 176, 208, 185, 208, 187, 58, 32>>
FenceBytes == <<96, 96, 96>>

\* the sections of a digest file: what follows each heading, up to the next one
HeadingPos(d) ==
    SelectSeq([i \in 1..Len(d) |-> i],
              LAMBDA i : /\ d[i] = 35
                         /\ i + 12 <= Len(d)
                         /\ SubSeq(d, i, i + 12) = HeadingBytes)
SectionPartsAt(d, pos) ==
    [k \in 1..Len(pos) |->
        SubSeq(d, pos[k] + 13, IF k = Len(pos) THEN Len(d) ELSE pos[k + 1] - 1)]
SectionParts(d) ==
    CHOOSE r \in {SectionPartsAt(v, HeadingPos(v)) : v \in {d}} : TRUE
SectionPath(part) == SubSeq(part, 1, IndexOf(part, NL) - 1)
SectionBlock(part) == SubSeq(part, IndexOf(part, NL) + 5, Len(part) - 6)
WellFramed(part) ==
    part = SectionPath(part) \o <<NL>> \o FenceBytes \o <<NL>> \o SectionBlock(part)
           \o <<NL>> \o FenceBytes \o <<NL, NL>>
SectionPaths(d) == [i \in 1..Len(SectionParts(d)) |-> SectionPath(SectionParts(d)[i])]

\* the write of the digest has completed
DigestWritten == digestWrite = "done"
\* the state right after it, the process not yet started; neither the buffer nor
\* the artifact is assigned in any later step
DigestJustWritten == DigestWritten /\ pc = "Digesting"
\* the scan is running, or has just returned its list to analyzeProject; neither
\* files nor importantFiles is assigned in any later step
ListInTheMaking == pc = "Collecting" \/ (pc = "Digesting" /\ nReads = 0)
\* a file's bytes are well-formed UTF-8: decoding and encoding gives them back
WellFormed(bytes) == Utf8(Utf8Decode(bytes)) = bytes
\* the bytes of a text file as the program passes them on: read with
\* fs.readFile(file, 'utf-8') and written with fs.writeFile
Recoded(bytes) == Utf8(Utf8Decode(bytes))
Chosen == SubSeq(importantFiles, 1, Min(10, Len(importantFiles)))
HasLogged(level, msg, arg) == \E i \in 1..Len(log) : log[i] = <<level, msg, arg>>
HasLoggedMsg(msg) == \E i \in 1..Len(log) : log[i][2] = msg

\* C1: every collected path ends with an allow-listed extension and no directory
\* on it, at any depth, has a deny-listed name.
C1_NoDeniedAnywhere ==
    ListInTheMaking =>
        \A f \in Range(files) \cup Range(importantFiles) :
            /\ DirNames(f) \cap DenyNames = {}
            /\ HasAllowedExt(f)

\* C1 witness: the scan ended with files collected from a nested directory after
\* passing deny-listed directories at the top level and below it.
C1_Witness ==
    /\ pc = "Digesting"
    /\ \E f \in Range(importantFiles) : Len(Split(f, SEP)) >= 3
    /\ \E p \in visited :
         /\ Len(Split(p, SEP)) = 1
         /\ LastName(p) \in DenyNames
         /\ Resolve(Cwd, p).kind = "dir"
    /\ \E p \in visited :
         /\ Len(Split(p, SEP)) >= 2
         /\ LastName(p) \in DenyNames
         /\ Resolve(Cwd, p).kind = "dir"

\* C2 (as amended): the written digest has at most 10 sections; each section is
\* of a file with an allow-listed extension and its block is the file's first 50
\* lines (the whole file when it has no more) as the program read them: byte for
\* byte when the file is well-formed UTF-8, with U+FFFD in place of each
\* ill-formed sequence otherwise; never more than 50 lines.
C2_DigestBounded ==
    DigestJustWritten =>
        LET parts == SectionParts(digestFile.data)
        IN  /\ Len(parts) <= 10
            /\ \A i \in 1..Len(parts) :
                 LET path == SectionPath(parts[i])
                     block == SectionBlock(parts[i])
                     content == ContentOf(Resolve(Cwd, path))
                 IN  /\ WellFramed(parts[i])
                     /\ HasAllowedExt(path)
                     /\ Resolve(Cwd, path).kind = "file"
                     /\ Cardinality(NLPos(block)) <= 49
                     /\ block = Recoded(FirstLines(content, 50))
                     /\ (WellFormed(content) => block = FirstLines(content, 50))
                     /\ (WellFormed(content) /\ Cardinality(NLPos(content)) < 50
                            => block = content)

\* C2 as stated: the block of every section is the file's first 50 lines, the
\* whole file when it has no more, for every file content.
C2_DigestVerbatim ==
    DigestJustWritten =>
        LET parts == SectionParts(digestFile.data)
        IN  /\ Len(parts) <= 10
            /\ \A i \in 1..Len(parts) :
                 LET path == SectionPath(parts[i])
                     block == SectionBlock(parts[i])
                     content == ContentOf(Resolve(Cwd, path))
                 IN  /\ HasAllowedExt(path)
                     /\ Cardinality(NLPos(block)) <= 49
                     /\ block = FirstLines(content, 50)
                     /\ (Cardinality(NLPos(content)) < 50 => block = content)

\* C2 witness: a digest of 10 sections, one cut to 50 lines, one in full and one
\* of a file that is not UTF-8, of a tree in which a file without an allow-listed
\* extension was seen.
C2_Witness ==
    /\ DigestWritten
    /\ Len(SectionParts(digestFile.data)) = 10
    /\ \E i \in 1..10 :
         LET part == SectionParts(digestFile.data)[i]
             content == ContentOf(Resolve(Cwd, SectionPath(part)))
         IN  /\ ~WellFormed(content)
             /\ Len(SectionBlock(part)) > Len(content)
    /\ \E i \in 1..10 :
         LET part == SectionParts(digestFile.data)[i]
         IN  /\ SectionBlock(part) # ContentOf(Resolve(Cwd, SectionPath(part)))
             /\ Cardinality(NLPos(SectionBlock(part))) = 49
    /\ \E i \in 1..10 :
         LET part == SectionParts(digestFile.data)[i]
         IN  /\ SectionBlock(part) = ContentOf(Resolve(Cwd, SectionPath(part)))
             /\ Len(SectionBlock(part)) > 1
    /\ \E p \in visited : Resolve(Cwd, p).kind = "file" /\ ~HasAllowedExt(p)

\* the bytes of the digest of a list of files when the files of readFailed are left out
RECURSIVE ExpectedDigestFrom(_, _)
ExpectedDigestFrom(list, k) ==
    IF k > Len(list) THEN <<>>
    ELSE (IF list[k] \in readFailed THEN <<>>
          ELSE HeadingBytes \o list[k] \o <<NL>> \o FenceBytes \o <<NL>>
               \o Recoded(FirstLines(ContentOf(Resolve(Cwd, list[k])), 50))
               \o <<NL>> \o FenceBytes \o <<NL, NL>>)
         \o ExpectedDigestFrom(list, k + 1)
ExpectedDigest(list) == TitleBytes \o ExpectedDigestFrom(list, 1)

\* C3: failed reads do not stop the digest loop. Every selected file is read, one
\* per iteration, and a warning is logged for each unreadable one; the written
\* digest holds a section for every
\* selected file that was read and none for the others, whichever of the selected
\* files failed, and a run that ends with no fault but failed reads has written
\* the digest and started the process.
C3_ReadFailureIsolated ==
    /\ \A f \in readFailed : HasLogged("log", "unreadable", f)
    /\ readFailed \subseteq Range(Chosen)
    /\ pc = "Digesting" => idx = nReads + 1
    /\ DigestJustWritten =>
         /\ nReads = Len(Chosen)
         /\ digestFile = Present(ExpectedDigest(Chosen))
         /\ \A f \in readFailed : f \notin Range(SectionPaths(digestFile.data))
    /\ (pc = "Done" /\ fault \in {"none", "exec", "reportWrite"}) =>
         /\ DigestWritten
         /\ nExec = 1

\* C3 witness: the process was started after three reads failed, the first file
\* among them, and a later file was read.
C3_Witness ==
    /\ pc = "Invoking"
    /\ Cardinality(readFailed) = 3
    /\ Len(Chosen) = 10
    /\ Chosen[1] \in readFailed
    /\ Chosen[Len(Chosen)] \notin readFailed
    /\ Len(SectionParts(digestFile.data)) = 7

\* C4: after a failed invocation the report artifact is as it was before the run,
\* an error is logged and no completion message is.
C4_FailureLeavesReport ==
    child.state = "error" =>
        /\ reportFile = prior
        /\ HasLogged("error", "exec", <<>>)
        /\ ~HasLoggedMsg("saved")

\* C4 witness: a run ended after a failed invocation, with an older report on disk.
C4_Witness ==
    /\ pc = "Done"
    /\ child.state = "error"
    /\ prior.exists
    /\ child.out # <<>>

\* C5: a run whose invocation succeeded with output S and whose report write
\* completed ends with the report artifact holding exactly S, in UTF-8.
C5_ReportVerbatim ==
    (pc = "Done" /\ child.state = "ok" /\ fault # "reportWrite") =>
        reportFile = Present(Utf8(child.out))

\* C5 witness: an older report was replaced by an output that begins with a blank
\* and ends with a line end.
C5_Witness ==
    /\ pc = "Done"
    /\ child.state = "ok"
    /\ prior.exists
    /\ child.out = Str(<<" ", "O", "K">>) \o <<NL>>
    /\ reportFile.data = child.out

\* C6: a failed readdir or stat ends the run: nothing is returned to
\* analyzeProject, no file is read, both artifacts are untouched, the process is
\* not started and the error is on the console.
C6_TraversalErrorAborts ==
    fault = "traversal" =>
        /\ pc = "Done"
        /\ importantFiles = <<>>
        /\ nReads = 0
        /\ digestFile = prior
        /\ reportFile = prior
        /\ nExec = 0
        /\ child.state = "none"
        /\ log[Len(log)] = <<"error", "uncaught", <<"traversal">>>>

\* C6 witness: the failure came in a nested directory after files had been
\* collected.
C6_Witness ==
    /\ fault = "traversal"
    /\ Len(files) >= 2
    /\ \E p \in visited : Len(Split(p, SEP)) >= 2

Rank(p) ==
    CASE p = "Idle" -> 1
      [] p = "Collecting" -> 2
      [] p = "Digesting" -> 3
      [] p = "Invoking" -> 4
      [] p = "Reporting" -> 5
      [] p = "Failed" -> 5
      [] p = "Done" -> 6

\* the positions, the scan and the artifacts in one state of a run
C7_Order ==
    /\ trace[1] = "Idle"
    /\ trace[Len(trace)] = pc
    /\ \A i \in 1..(Len(trace) - 1) :
         /\ Rank(trace[i]) < Rank(trace[i + 1])
         /\ \/ Rank(trace[i + 1]) = Rank(trace[i]) + 1
            \/ /\ trace[i] \in {"Collecting", "Digesting"}
               /\ trace[i + 1] = "Done"
               /\ fault \in {"traversal", "digestWrite"}
    /\ (fault \in {"traversal", "digestWrite"} => pc = "Done" /\ nExec = 0)
    /\ (fault = "traversal" => trace = <<"Idle", "Collecting", "Done">>)
    /\ (fault = "digestWrite" => trace = <<"Idle", "Collecting", "Digesting", "Done">>)
    /\ (pc \notin {"Idle", "Collecting"} => stack = <<>>)
    /\ (nReads > 0 => pc \notin {"Idle", "Collecting"})
    /\ (nExec = 1 <=> child.state # "none")
    /\ (nExec = 1 => DigestWritten)
    /\ nExec <= 1
    /\ (reportFile # prior => (child.state = "ok" /\ pc \in {"Reporting", "Done"}))

\* the step that starts the process leaves a state in which the digest artifact
\* holds the whole digest, and changes neither the artifact nor the buffer
C7_DigestBeforeExec ==
    nExec' # nExec =>
        /\ digestFile = Present(Utf8(projectContext))
        /\ digestFile' = digestFile
        /\ projectContext' = projectContext

\* C7 (as amended): the positions of a run follow Idle, Collecting, Digesting,
\* Invoking, one of Reporting and Failed, Done, each at most once and none
\* skipped, but for a run that a traversal error or a failed write of the digest
\* ends: it goes from Collecting or Digesting to Done and starts no process. No
\* scan is active once the digest is being built, the digest artifact holds the
\* whole digest before the process is started, the process is started at most
\* once, and the report artifact changes only after the process succeeded.
C7_LinearOrder == [](C7_Order) /\ [][C7_DigestBeforeExec]_vars

\* C7 as stated: every run goes through all the positions, none skipped.
C7_EveryRunThroughAll ==
    /\ trace[1] = "Idle"
    /\ \A i \in 1..(Len(trace) - 1) : Rank(trace[i + 1]) = Rank(trace[i]) + 1

\* C7 witness: a run through Reporting, with files found in nested directories.
C7_Witness ==
    /\ trace = <<"Idle", "Collecting", "Digesting", "Invoking", "Reporting", "Done">>
    /\ reportFile # prior
    /\ \E f \in Range(importantFiles) : Len(Split(f, SEP)) >= 2

\* C8: the collected list is the depth-first walk in listing order; the sections
\* of the digest are, in order, the readable files among the first min(10, n)
\* entries of that list, so no later entry has a section.
C8_FirstTenInOrder ==
    /\ ListInTheMaking =>
         \E expected \in {ExpectedList} :
            /\ IsPrefix(files, expected)
            /\ pc = "Digesting" => importantFiles = expected
    /\ DigestJustWritten =>
          /\ SectionPaths(digestFile.data) =
                SelectSeq(Chosen, LAMBDA f : f \notin readFailed)
          /\ \A i \in 11..Len(importantFiles) :
                importantFiles[i] \notin Range(SectionPaths(digestFile.data))

\* C8 witness: more than 10 files were collected, among them files of a
\* subdirectory listed before files of its parent, and two of the first 10 were
\* unreadable.
C8_Witness ==
    /\ DigestWritten
    /\ Len(importantFiles) > 10
    /\ Cardinality(readFailed) = 2
    /\ Len(SectionParts(digestFile.data)) = 8
    /\ \E i \in 1..Len(importantFiles) : \E j \in (i + 1)..Len(importantFiles) :
         Len(Split(importantFiles[i], SEP)) > Len(Split(importantFiles[j], SEP))

\* C9 as stated: whenever the completion message has been logged, the report
\* artifact holds the standard output of the process.
C9_SavedAfterPersisted ==
    HasLoggedMsg("saved") => reportFile = Present(Utf8(child.out))

Terminated == pc = "Done"

\* C10: under fairness every run reaches Done; on the way no directory entry is
\* visited twice and at most 10 files are read.
C10_Terminates ==
    /\ <>Terminated
    /\ [](nReads <= 10 /\ ~revisited /\ nExec <= 1)

\* C10 witness: a run that read 10 files ended after a failed invocation.
C10_Witness ==
    /\ pc = "Done"
    /\ child.state = "error"
    /\ nReads = 10
    /\ trace[Len(trace) - 1] = "Failed"

====
